---- MODULE Spec2Model ----
(***************************************************************************)
(* A model of the JSON parser of src/src/parser.rs: the pest grammar       *)
(* (json.pest), the builder that turns the grammar's pairs into a          *)
(* serde_json::Value, and the document utilities over a built Value.       *)
(*                                                                         *)
(* Text is a sequence of Unicode code points (a Rust &str, one number per  *)
(* char).  A Value is a record tagged by its variant.                      *)
(***************************************************************************)
EXTENDS Integers, Sequences, FiniteSets, TLC

VARIABLES
    preserve_order, \* serde_json's Map: insertion-ordered (TRUE) or sorted by key
    input,          \* the call being made: the operation and its arguments
    json,           \* the Value the caller holds (NoValue when it holds none)
    call            \* the outcome of the call: the operation done and what it returned

vars == <<preserve_order, input, json, call>>

(***************************************************************************)
(* Characters                                                              *)
(***************************************************************************)

\* The code points the grammar and the code name.
Ch ==
    [ quote |-> 34, backslash |-> 92, slash |-> 47, lbrace |-> 123, rbrace |-> 125,
      lbracket |-> 91, rbracket |-> 93, comma |-> 44, colon |-> 58, dot |-> 46,
      minus |-> 45, plus |-> 43, space |-> 32, tab |-> 9, lf |-> 10, cr |-> 13,
      bs |-> 8, ff |-> 12, zero |-> 48, nine |-> 57,
      a |-> 97, b |-> 98, e |-> 101, f |-> 102, l |-> 108, n |-> 110, r |-> 114,
      s |-> 115, t |-> 116, u |-> 117, x |-> 120, y |-> 121, E |-> 69, A |-> 65, F |-> 70 ]

IsDigit(c) == c >= Ch.zero /\ c <= Ch.nine

DigitVal(c) == c - Ch.zero

IsHexDigit(c) == IsDigit(c) \/ (c >= Ch.a /\ c <= Ch.f) \/ (c >= Ch.A /\ c <= Ch.F)

\* One hex digit's value, as u32::from_str_radix(_, 16) reads it.
HexVal(c) ==
    IF IsDigit(c) THEN c - Ch.zero
    ELSE IF c >= Ch.a /\ c <= Ch.f THEN c - Ch.a + 10
    ELSE c - Ch.A + 10

\* The lowercase hex digit of a nibble.
HexDigit(d) == IF d < 10 THEN Ch.zero + d ELSE Ch.a + (d - 10)

RECURSIVE DecDigits(_)
\* A natural number in decimal, as Display writes it.
DecDigits(n) == IF n < 10 THEN <<Ch.zero + n>> ELSE DecDigits(n \div 10) \o <<Ch.zero + (n % 10)>>

RECURSIVE DigitsVal(_, _)
\* The value of a run of decimal digits, read left to right from acc.
DigitsVal(ds, acc) ==
    IF ds = <<>> THEN acc ELSE DigitsVal(Tail(ds), acc * 10 + DigitVal(Head(ds)))

RECURSIVE StrLess(_, _)
\* Rust's Ord on String: lexicographic by code point.
StrLess(s1, s2) ==
    IF s2 = <<>> THEN FALSE
    ELSE IF s1 = <<>> THEN TRUE
    ELSE IF Head(s1) # Head(s2) THEN Head(s1) < Head(s2)
    ELSE StrLess(Tail(s1), Tail(s2))

RECURSIVE Find(_, _, _)
\* str::find(c): the first index (from 0) of c in s at or after offset i, or -1.
Find(s, c, i) ==
    IF i >= Len(s) THEN -1
    ELSE IF s[i + 1] = c THEN i
    ELSE Find(s, c, i + 1)

Contains(s, c) == \E i \in 1..Len(s) : s[i] = c

RECURSIVE Zeros(_)
Zeros(n) == IF n <= 0 THEN <<>> ELSE <<Ch.zero>> \o Zeros(n - 1)

(***************************************************************************)
(* serde_json::Value                                                       *)
(***************************************************************************)

NoValue == [t |-> "none"]

Null == [t |-> "null"]

Bool(b) == [t |-> "bool", b |-> b]

\* Number: N::PosInt / N::NegInt (an integer) or N::Float (neg, m * 10^e, m without
\* trailing zeros).
Int64(i) == [t |-> "num", k |-> "int", i |-> i]

Float(neg, m, e) == [t |-> "num", k |-> "f64", neg |-> neg, m |-> m, e |-> e]

String(s) == [t |-> "str", s |-> s]

Array(a) == [t |-> "arr", a |-> a]

\* An Object holds its entries as a sequence of <<key, value>>, keys unique.
Object(o) == [t |-> "obj", o |-> o]

Ok(v) == [ok |-> TRUE, val |-> v]

Err(e) == [ok |-> FALSE, err |-> e]

Some(v) == [some |-> TRUE, val |-> v]

None == [some |-> FALSE]

\* The outcome of a call that panicked instead of returning.
Panic == [panic |-> TRUE]

is_object(v) == v.t = "obj"

is_array(v) == v.t = "arr"

is_string(v) == v.t = "str"

Keys(o) == {o[i][1] : i \in 1..Len(o)}

\* Map::contains_key
contains_key(o, k) == \E i \in 1..Len(o) : o[i][1] = k

\* The position of key k in the entries o (k is a key of o).
KeyIndex(o, k) == CHOOSE i \in 1..Len(o) : o[i][1] = k

\* Map::get
MapGet(o, k) == IF contains_key(o, k) THEN Some(o[KeyIndex(o, k)][2]) ELSE None

\* Where a new key goes: at the end (IndexMap) or before the first greater key (BTreeMap).
InsertPos(o, k) ==
    IF preserve_order THEN Len(o) + 1
    ELSE Cardinality({i \in 1..Len(o) : StrLess(o[i][1], k)}) + 1

MapInsert_KeepsOld(o, k, v) ==
    IF contains_key(o, k) THEN o
    ELSE SubSeq(o, 1, InsertPos(o, k) - 1) \o <<(<<k, v>>)>> \o SubSeq(o, InsertPos(o, k), Len(o))

\* Map::insert: an existing key keeps its place and takes the new value.
MapInsert(o, k, v) ==
    IF contains_key(o, k)
    THEN [o EXCEPT ![KeyIndex(o, k)] = <<k, v>>]
    ELSE LET p == InsertPos(o, k)
         IN  SubSeq(o, 1, p - 1) \o <<(<<k, v>>)>> \o SubSeq(o, p, Len(o))

\* Value::get(&str): a member of an Object, None on anything else.
GetKey(v, k) == IF is_object(v) THEN MapGet(v.o, k) ELSE None

\* Value::get(usize): an element of an Array, None on anything else.
GetIndex(v, i) ==
    IF is_array(v) /\ i >= 0 /\ i < Len(v.a) THEN Some(v.a[i + 1]) ELSE None

\* PartialEq on Number: integers by value, floats by value (-0.0 == 0.0), never across.
NumberEq(x, y) ==
    /\ x.k = y.k
    /\ IF x.k = "int" THEN x.i = y.i
       ELSE x.m = y.m /\ x.e = y.e /\ (x.m = 0 \/ x.neg = y.neg)

RECURSIVE ValueEq(_, _)
\* PartialEq on Value: Objects are equal as maps, whatever their entries' order.
ValueEq(x, y) ==
    /\ x.t = y.t
    /\ CASE x.t = "bool" -> x.b = y.b
         [] x.t = "num" -> NumberEq(x, y)
         [] x.t = "str" -> x.s = y.s
         [] x.t = "arr" ->
              /\ Len(x.a) = Len(y.a)
              /\ \A i \in 1..Len(x.a) : ValueEq(x.a[i], y.a[i])
         [] x.t = "obj" ->
              /\ Len(x.o) = Len(y.o)
              /\ \A i \in 1..Len(x.o) :
                    /\ contains_key(y.o, x.o[i][1])
                    /\ ValueEq(x.o[i][2], y.o[KeyIndex(y.o, x.o[i][1])][2])
         [] OTHER -> TRUE

(***************************************************************************)
(* Numbers: serde_json::Number::from_str and Display                       *)
(***************************************************************************)

\* The decimal exponents between which an f64 is finite and not zero.
F64 == [max_exp10 |-> 308, min_exp10 |-> -324]

RECURSIVE DigitRun(_, _)
\* The number of decimal digits of s from position i (from 1) on.
DigitRun(s, i) == IF i <= Len(s) /\ IsDigit(s[i]) THEN 1 + DigitRun(s, i + 1) ELSE 0

RECURSIVE Normalize(_, _, _)
\* m * 10^e with the trailing zeros of m moved into e (zero is 0 * 10^0).
Normalize(neg, m, e) ==
    IF m = 0 THEN Float(neg, 0, 0)
    ELSE IF m % 10 = 0 THEN Normalize(neg, m \div 10, e + 1)
    ELSE Float(neg, m, e)

\* The parts of a number's text, read char by char: the sign, the integer digits,
\* the fraction digits after a dot, the exponent's sign and digits after e or E.
NumberParts == [neg |-> FALSE, int |-> <<>>, frac |-> <<>>, exp |-> <<>>,
                has_frac |-> FALSE, has_exp |-> FALSE, exp_neg |-> FALSE]

RECURSIVE ScanNumber(_, _, _, _)
ScanNumber(s, i, part, acc) ==
    IF i > Len(s) THEN acc
    ELSE IF s[i] = Ch.minus
    THEN ScanNumber(s, i + 1, part,
                    IF part = "int" THEN [acc EXCEPT !.neg = TRUE]
                    ELSE [acc EXCEPT !.exp_neg = TRUE])
    ELSE IF s[i] = Ch.plus THEN ScanNumber(s, i + 1, part, acc)
    ELSE IF s[i] = Ch.dot THEN ScanNumber(s, i + 1, "frac", [acc EXCEPT !.has_frac = TRUE])
    ELSE IF s[i] \in {Ch.e, Ch.E}
    THEN ScanNumber(s, i + 1, "exp", [acc EXCEPT !.has_exp = TRUE])
    ELSE ScanNumber(s, i + 1, part, [acc EXCEPT ![part] = Append(@, s[i])])

\* A float within the f64 range: beyond it an error, below it 0.0.
FloatInRange(f, mag) ==
    IF f.m # 0 /\ mag > F64.max_exp10 THEN Err("NumberOutOfRange")
    ELSE IF f.m # 0 /\ mag < F64.min_exp10 THEN Ok(Float(f.neg, 0, 0))
    ELSE Ok(f)

FloatOfParts(f) == FloatInRange(f, Len(DecDigits(f.m)) + f.e - 1)

\* An integer without fraction and exponent ("-0" is the float -0.0), a float otherwise.
NumberOfParts(p) ==
    IF ~p.has_frac /\ ~p.has_exp
    THEN IF ~p.neg THEN Ok(Int64(DigitsVal(p.int, 0)))
         ELSE IF DigitsVal(p.int, 0) = 0 THEN Ok(Float(TRUE, 0, 0))
         ELSE Ok(Int64(0 - DigitsVal(p.int, 0)))
    ELSE FloatOfParts(Normalize(p.neg, DigitsVal(p.frac, DigitsVal(p.int, 0)),
                                (IF p.exp_neg THEN 0 - DigitsVal(p.exp, 0)
                                 ELSE DigitsVal(p.exp, 0)) - Len(p.frac)))

\* Number::from_str on a text the number rule matched.
NumberFromStr(s) == NumberOfParts(ScanNumber(s, 1, "int", NumberParts))

\* A signed integer in decimal.
IntToStr(i) == IF i < 0 THEN <<Ch.minus>> \o DecDigits(0 - i) ELSE DecDigits(i)

\* Display of a float (ryu): plain decimal while the point stays within 16 digits
\* of the first digit and 5 zeros of it, scientific beyond.
FloatToStr(x) ==
    LET ds   == DecDigits(x.m)
        n    == Len(ds)
        kk   == n + x.e
        sign == IF x.neg THEN <<Ch.minus>> ELSE <<>>
        body ==
            IF x.m = 0 THEN <<Ch.zero, Ch.dot, Ch.zero>>
            ELSE IF x.e >= 0 /\ kk <= 16 THEN ds \o Zeros(x.e) \o <<Ch.dot, Ch.zero>>
            ELSE IF kk > 0 /\ kk <= 16 THEN SubSeq(ds, 1, kk) \o <<Ch.dot>> \o SubSeq(ds, kk + 1, n)
            ELSE IF kk > -5 /\ kk <= 0 THEN <<Ch.zero, Ch.dot>> \o Zeros(0 - kk) \o ds
            ELSE IF n = 1 THEN ds \o <<Ch.e>> \o IntToStr(kk - 1)
            ELSE <<ds[1], Ch.dot>> \o SubSeq(ds, 2, n) \o <<Ch.e>> \o IntToStr(kk - 1)
    IN  sign \o body

\* Display of a Number.
NumberToStr(x) == IF x.k = "int" THEN IntToStr(x.i) ELSE FloatToStr(x)

(***************************************************************************)
(* serde_json's compact writer (Value::to_string)                          *)
(***************************************************************************)

\* One char of a string as the writer escapes it.
EscapeChar(c) ==
    CASE c = Ch.quote -> <<Ch.backslash, Ch.quote>>
      [] c = Ch.backslash -> <<Ch.backslash, Ch.backslash>>
      [] c = Ch.bs -> <<Ch.backslash, Ch.b>>
      [] c = Ch.ff -> <<Ch.backslash, Ch.f>>
      [] c = Ch.lf -> <<Ch.backslash, Ch.n>>
      [] c = Ch.cr -> <<Ch.backslash, Ch.r>>
      [] c = Ch.tab -> <<Ch.backslash, Ch.t>>
      [] OTHER ->
           IF c < Ch.space
           THEN <<Ch.backslash, Ch.u, Ch.zero, Ch.zero, HexDigit(c \div 16), HexDigit(c % 16)>>
           ELSE <<c>>

RECURSIVE EscapeChars(_)
EscapeChars(s) == IF s = <<>> THEN <<>> ELSE EscapeChar(Head(s)) \o EscapeChars(Tail(s))

\* A string between quotes, escaped.
WriteString(s) == <<Ch.quote>> \o EscapeChars(s) \o <<Ch.quote>>

RECURSIVE WriteValue(_)
RECURSIVE WriteElements(_, _)
RECURSIVE WriteEntries(_, _)

\* The elements of an array from the i-th on, separated by commas.
WriteElements(a, i) ==
    IF i > Len(a) THEN <<>>
    ELSE (IF i > 1 THEN <<Ch.comma>> ELSE <<>>) \o WriteValue(a[i]) \o WriteElements(a, i + 1)

\* The entries of an object from the i-th on, in stored order, separated by commas.
WriteEntries(o, i) ==
    IF i > Len(o) THEN <<>>
    ELSE (IF i > 1 THEN <<Ch.comma>> ELSE <<>>)
         \o WriteString(o[i][1]) \o <<Ch.colon>> \o WriteValue(o[i][2])
         \o WriteEntries(o, i + 1)

\* Value::to_string: the compact JSON text of a Value.
WriteValue(v) ==
    CASE v.t = "null" -> <<Ch.n, Ch.u, Ch.l, Ch.l>>
      [] v.t = "bool" ->
           IF v.b THEN <<Ch.t, Ch.r, Ch.u, Ch.e>> ELSE <<Ch.f, Ch.a, Ch.l, Ch.s, Ch.e>>
      [] v.t = "num" -> NumberToStr(v)
      [] v.t = "str" -> WriteString(v.s)
      [] v.t = "arr" -> <<Ch.lbracket>> \o WriteElements(v.a, 1) \o <<Ch.rbracket>>
      [] v.t = "obj" -> <<Ch.lbrace>> \o WriteEntries(v.o, 1) \o <<Ch.rbrace>>

(***************************************************************************)
(* The grammar (json.pest) and pest's matching of it                       *)
(*                                                                         *)
(* A match is [ok, pos, node]: pos is the position after the matched text, *)
(* node the pair pest produces, [rule, str, kids].  The value rule is      *)
(* silent: a pair's value and an array's elements are the object, array,   *)
(* string, number, boolean or null pairs themselves.                       *)
(***************************************************************************)

Fail == [ok |-> FALSE]

Match(pos, node) == [ok |-> TRUE, pos |-> pos, node |-> node]

Node(rule, str, kids) == [rule |-> rule, str |-> str, kids |-> kids]

\* The char at position i (from 1), or -1 beyond the end of the text.
At(t, i) == IF i >= 1 /\ i <= Len(t) THEN t[i] ELSE -1

IsWhitespace(c) == c \in {Ch.space, Ch.tab, Ch.lf, Ch.cr}

RECURSIVE SkipWs(_, _)
\* WHITESPACE*: the first position at or after i that holds no whitespace.
SkipWs(t, i) == IF IsWhitespace(At(t, i)) THEN SkipWs(t, i + 1) ELSE i

\* The chars that may follow a backslash in a two-char escape_sequence.
SimpleEscapes == {Ch.quote, Ch.backslash, Ch.slash, Ch.b, Ch.f, Ch.n, Ch.r, Ch.t}

RECURSIVE MatchChars(_, _, _)
\* (character | escape_sequence)* up to the closing quote, which pos names.
MatchChars(t, j, kids) ==
    LET c == At(t, j)
    IN  IF c = -1 THEN Fail
        ELSE IF c = Ch.quote THEN [ok |-> TRUE, pos |-> j, kids |-> kids]
        ELSE IF c = Ch.backslash
        THEN IF At(t, j + 1) \in SimpleEscapes
             THEN MatchChars(t, j + 2,
                             Append(kids, Node("escape_sequence", SubSeq(t, j, j + 1), <<>>)))
             ELSE IF At(t, j + 1) = Ch.u /\ \A d \in 2..5 : IsHexDigit(At(t, j + d))
             THEN MatchChars(t, j + 6,
                             Append(kids, Node("escape_sequence", SubSeq(t, j, j + 5), <<>>)))
             ELSE Fail
        ELSE MatchChars(t, j + 1, Append(kids, Node("character", <<c>>, <<>>)))

\* string := " (character | escape_sequence)* "
MatchString(t, i) ==
    IF At(t, i) # Ch.quote THEN Fail
    ELSE LET r == MatchChars(t, i + 1, <<>>)
         IN  IF r.ok THEN Match(r.pos + 1, Node("string", SubSeq(t, i, r.pos), r.kids))
             ELSE Fail

\* The end of the integer part at j0: 0, or a run of digits (j0 itself when none).
IntEnd(t, j0) == IF At(t, j0) = Ch.zero THEN j0 + 1 ELSE j0 + DigitRun(t, j0)

\* The end of an optional fraction at j1: a dot and at least one digit.
FracEnd(t, j1) ==
    IF At(t, j1) = Ch.dot /\ DigitRun(t, j1 + 1) > 0 THEN j1 + 1 + DigitRun(t, j1 + 1) ELSE j1

\* Where the digits of an exponent at j2 start: after e or E and an optional sign.
ExpDigitsAt(t, j2) == IF At(t, j2 + 1) \in {Ch.minus, Ch.plus} THEN j2 + 2 ELSE j2 + 1

\* The end of an optional exponent at j2.
ExpEnd(t, j2) ==
    IF At(t, j2) \in {Ch.e, Ch.E} /\ DigitRun(t, ExpDigitsAt(t, j2)) > 0
    THEN ExpDigitsAt(t, j2) + DigitRun(t, ExpDigitsAt(t, j2))
    ELSE j2

NumberSpan(t, i, j3) == Match(j3, Node("number", SubSeq(t, i, j3 - 1), <<>>))

NumberFrom(t, i, j0) ==
    IF IntEnd(t, j0) = j0 THEN Fail
    ELSE NumberSpan(t, i, ExpEnd(t, FracEnd(t, IntEnd(t, j0))))

\* number := -? (0 | [1-9][0-9]*) (. [0-9]+)? ((e|E) (+|-)? [0-9]+)?
MatchNumber(t, i) == NumberFrom(t, i, IF At(t, i) = Ch.minus THEN i + 1 ELSE i)

\* A literal: its text at position i.
MatchLiteral(t, i, rule, lit) ==
    IF i + Len(lit) - 1 <= Len(t) /\ SubSeq(t, i, i + Len(lit) - 1) = lit
    THEN Match(i + Len(lit), Node(rule, lit, <<>>))
    ELSE Fail

LitTrue == <<Ch.t, Ch.r, Ch.u, Ch.e>>

LitFalse == <<Ch.f, Ch.a, Ch.l, Ch.s, Ch.e>>

LitNull == <<Ch.n, Ch.u, Ch.l, Ch.l>>

\* boolean := true | false
MatchBoolean(t, i) ==
    LET r == MatchLiteral(t, i, "boolean", LitTrue)
    IN  IF r.ok THEN r ELSE MatchLiteral(t, i, "boolean", LitFalse)

RECURSIVE MatchValue(_, _)
RECURSIVE MatchObject(_, _)
RECURSIVE MatchArray(_, _)
RECURSIVE MatchPair(_, _)
RECURSIVE MatchPairs(_, _, _)
RECURSIVE MatchElements(_, _, _)

\* value := object | array | string | number | boolean | null (ordered choice)
MatchValue(t, i) ==
    IF At(t, i) = Ch.lbrace THEN MatchObject(t, i)
    ELSE IF At(t, i) = Ch.lbracket THEN MatchArray(t, i)
    ELSE IF At(t, i) = Ch.quote THEN MatchString(t, i)
    ELSE IF At(t, i) = Ch.minus \/ IsDigit(At(t, i)) THEN MatchNumber(t, i)
    ELSE IF At(t, i) \in {Ch.t, Ch.f} THEN MatchBoolean(t, i)
    ELSE MatchLiteral(t, i, "null", LitNull)

PairOf(t, i, s, v) ==
    IF ~v.ok THEN Fail
    ELSE Match(v.pos, Node("pair", SubSeq(t, i, v.pos - 1), <<s.node, v.node>>))

PairAfterKey(t, i, s, k) ==
    IF At(t, k) # Ch.colon THEN Fail
    ELSE PairOf(t, i, s, MatchValue(t, SkipWs(t, k + 1)))

PairFrom(t, i, s) == IF ~s.ok THEN Fail ELSE PairAfterKey(t, i, s, SkipWs(t, s.pos))

\* pair := string : value
MatchPair(t, i) == PairFrom(t, i, MatchString(t, i))

\* After a pair: a comma and more pairs, or the closing brace.
PairsAfter(t, kids, k) ==
    IF At(t, k) = Ch.comma THEN MatchPairs(t, SkipWs(t, k + 1), kids)
    ELSE IF At(t, k) = Ch.rbrace THEN [ok |-> TRUE, pos |-> k + 1, kids |-> kids]
    ELSE Fail

PairsFrom(t, kids, p) ==
    IF ~p.ok THEN Fail ELSE PairsAfter(t, Append(kids, p.node), SkipWs(t, p.pos))

\* pair (, pair)* } from position i on: the pairs, and the position after the brace.
MatchPairs(t, i, kids) == PairsFrom(t, kids, MatchPair(t, i))

ObjectOf(t, i, r) ==
    IF r.ok THEN Match(r.pos, Node("object", SubSeq(t, i, r.pos - 1), r.kids)) ELSE Fail

ObjectFrom(t, i, j) ==
    IF At(t, j) = Ch.rbrace THEN Match(j + 1, Node("object", SubSeq(t, i, j), <<>>))
    ELSE ObjectOf(t, i, MatchPairs(t, j, <<>>))

\* object := { (pair (, pair)*)? }
MatchObject(t, i) ==
    IF At(t, i) # Ch.lbrace THEN Fail ELSE ObjectFrom(t, i, SkipWs(t, i + 1))

\* After an element: a comma and more elements, or the closing bracket.
ElementsAfter(t, kids, k) ==
    IF At(t, k) = Ch.comma THEN MatchElements(t, SkipWs(t, k + 1), kids)
    ELSE IF At(t, k) = Ch.rbracket THEN [ok |-> TRUE, pos |-> k + 1, kids |-> kids]
    ELSE Fail

ElementsFrom(t, kids, v) ==
    IF ~v.ok THEN Fail ELSE ElementsAfter(t, Append(kids, v.node), SkipWs(t, v.pos))

\* value (, value)* ] from position i on: the elements, and the position after the bracket.
MatchElements(t, i, kids) == ElementsFrom(t, kids, MatchValue(t, i))

ArrayOf(t, i, r) ==
    IF r.ok THEN Match(r.pos, Node("array", SubSeq(t, i, r.pos - 1), r.kids)) ELSE Fail

ArrayFrom(t, i, j) ==
    IF At(t, j) = Ch.rbracket THEN Match(j + 1, Node("array", SubSeq(t, i, j), <<>>))
    ELSE ArrayOf(t, i, MatchElements(t, j, <<>>))

\* array := [ (value (, value)*)? ]
MatchArray(t, i) ==
    IF At(t, i) # Ch.lbracket THEN Fail ELSE ArrayFrom(t, i, SkipWs(t, i + 1))

\* The match must end where the input ends, whitespace aside.
JsonOf(t, r) ==
    IF ~r.ok THEN Fail
    ELSE IF SkipWs(t, r.pos) # Len(t) + 1 THEN Fail
    ELSE Match(Len(t) + 1, Node("json", t, <<r.node>>))

JsonFrom(t, i) ==
    JsonOf(t, IF At(t, i) = Ch.lbrace THEN MatchObject(t, i) ELSE MatchArray(t, i))

\* json := object | array, the whole input, whitespace around it ignored.
\* JSONParser::parse(Rule::json, t): the pairs of the match, or the failure.
MatchJson(t) == JsonFrom(t, SkipWs(t, 1))

(***************************************************************************)
(* The extended literals: date, version, key_value_array                   *)
(***************************************************************************)

IsLetter(c) == (c >= 65 /\ c <= 90) \/ (c >= 97 /\ c <= 122)

IsAlphanumeric(c) == IsLetter(c) \/ IsDigit(c)

MonthAt_AnyDigits(t, i) == IsDigit(At(t, i)) /\ IsDigit(At(t, i + 1))

\* A month at position i: 01 to 09, or 10 to 12.
MonthAt(t, i) ==
    \/ At(t, i) = Ch.zero /\ IsDigit(At(t, i + 1)) /\ At(t, i + 1) # Ch.zero
    \/ At(t, i) = Ch.zero + 1 /\ At(t, i + 1) \in Ch.zero..(Ch.zero + 2)

\* A day at position i: 01 to 09, 10 to 29, or 30 and 31.
DayAt(t, i) ==
    \/ At(t, i) = Ch.zero /\ IsDigit(At(t, i + 1)) /\ At(t, i + 1) # Ch.zero
    \/ At(t, i) \in (Ch.zero + 1)..(Ch.zero + 2) /\ IsDigit(At(t, i + 1))
    \/ At(t, i) = Ch.zero + 3 /\ At(t, i + 1) \in Ch.zero..(Ch.zero + 1)

\* date := YYYY-MM-DD, the whole input.
\* JSONParser::parse(Rule::date, t)
MatchDate(t) ==
    IF /\ \A i \in 1..4 : IsDigit(At(t, i))
       /\ At(t, 5) = Ch.minus
       /\ MonthAt(t, 6)
       /\ At(t, 8) = Ch.minus
       /\ DayAt(t, 9)
       /\ Len(t) = 10
    THEN Match(11, Node("date", t, <<>>))
    ELSE Fail

\* The position after the integer at position i (0, or digits with no leading zero),
\* or -1 when there is none.
IntegerEnd(t, i) ==
    IF At(t, i) = Ch.zero THEN i + 1
    ELSE IF IsDigit(At(t, i)) THEN i + DigitRun(t, i)
    ELSE -1

RECURSIVE AlnumRun(_, _)
\* The first position at or after i that holds no letter and no digit.
AlnumRun(t, i) == IF IsAlphanumeric(At(t, i)) THEN AlnumRun(t, i + 1) ELSE i

RECURSIVE IdentifiersEnd(_, _)
\* The position after a dot-separated list of non-empty alphanumeric identifiers
\* at position i, or -1 when an identifier is empty.
IdentifiersEnd(t, i) ==
    IF AlnumRun(t, i) = i THEN -1
    ELSE IF At(t, AlnumRun(t, i)) = Ch.dot THEN IdentifiersEnd(t, AlnumRun(t, i) + 1)
    ELSE AlnumRun(t, i)

\* A dot at position j and an integer after it: the position after them, or -1.
DotInteger(t, j) ==
    IF j = -1 \/ At(t, j) # Ch.dot THEN -1 ELSE IntegerEnd(t, j + 1)

OptionalIdentifiers_MayBeEmpty(t, j, c) ==
    IF j = -1 THEN -1
    ELSE IF At(t, j) = c
    THEN (IF IdentifiersEnd(t, j + 1) = -1 THEN j + 1 ELSE IdentifiersEnd(t, j + 1))
    ELSE j

\* The optional part that the char c opens at position j: the position after it, j
\* when c is not there, or -1.
OptionalIdentifiers(t, j, c) ==
    IF j = -1 THEN -1
    ELSE IF At(t, j) = c THEN IdentifiersEnd(t, j + 1)
    ELSE j

\* The position after major.minor.patch, the optional -prerelease and the optional
\* +buildmetadata, or -1.
VersionEnd(t) ==
    OptionalIdentifiers(t,
        OptionalIdentifiers(t, DotInteger(t, DotInteger(t, IntegerEnd(t, 1))), Ch.minus),
        Ch.plus)

\* version := major.minor.patch (- prerelease)? (+ buildmetadata)?, the whole input.
\* JSONParser::parse(Rule::version, t)
MatchVersion(t) ==
    IF VersionEnd(t) = Len(t) + 1 THEN Match(Len(t) + 1, Node("version", t, <<>>)) ELSE Fail

RECURSIVE ObjectsFrom(_, _)

\* After an object of a key_value_array: a comma and more objects, or the closing
\* bracket.
ObjectsAfter(t, r) ==
    IF ~r.ok THEN Fail
    ELSE IF At(t, SkipWs(t, r.pos)) = Ch.comma
    THEN ObjectsFrom(t, SkipWs(t, SkipWs(t, r.pos) + 1))
    ELSE IF At(t, SkipWs(t, r.pos)) = Ch.rbracket
    THEN Match(SkipWs(t, r.pos) + 1, Node("key_value_array", SubSeq(t, 1, SkipWs(t, r.pos)), <<>>))
    ELSE Fail

\* object (, object)* ] from position i.
ObjectsFrom(t, i) == ObjectsAfter(t, MatchObject(t, i))

MatchKeyValueArray_AnyValues(t) == MatchArray(t, 1)

\* key_value_array := [ (object (, object)*)? ]
\* JSONParser::parse(Rule::key_value_array, t)
MatchKeyValueArray(t) ==
    IF At(t, 1) # Ch.lbracket THEN Fail
    ELSE IF At(t, SkipWs(t, 2)) = Ch.rbracket
    THEN Match(SkipWs(t, 2) + 1, Node("key_value_array", SubSeq(t, 1, SkipWs(t, 2)), <<>>))
    ELSE ObjectsFrom(t, SkipWs(t, 2))

(***************************************************************************)
(* The builder: pairs to Value                                             *)
(***************************************************************************)

JsonParseError == Err("JsonParseError")

\* The code points char::from_u32 refuses: the surrogates, and those past the last.
CharRange == [surrogate_lo |-> 55296, surrogate_hi |-> 57343, last |-> 1114111]

from_u32_Unchecked(cp) == Some(cp)

\* char::from_u32
from_u32(cp) ==
    IF (cp >= CharRange.surrogate_lo /\ cp <= CharRange.surrogate_hi) \/ cp > CharRange.last
    THEN None
    ELSE Some(cp)

RECURSIVE HexDigitsVal(_, _)
HexDigitsVal(ds, acc) ==
    IF ds = <<>> THEN acc ELSE HexDigitsVal(Tail(ds), acc * 16 + HexVal(Head(ds)))

\* u32::from_str_radix(hex, 16)
from_str_radix(hex) ==
    IF hex = <<>> \/ \E i \in 1..Len(hex) : ~IsHexDigit(hex[i])
    THEN Err("ParseIntError")
    ELSE Ok(HexDigitsVal(hex, 0))

\* The match of parse_string on an escape_sequence's text: what it appends, or the error.
Unescape(esc) ==
    CASE esc = <<Ch.backslash, Ch.quote>> -> Ok(<<Ch.quote>>)
      [] esc = <<Ch.backslash, Ch.backslash>> -> Ok(<<Ch.backslash>>)
      [] esc = <<Ch.backslash, Ch.slash>> -> Ok(<<Ch.slash>>)
      [] esc = <<Ch.backslash, Ch.b>> -> Ok(<<Ch.bs>>)
      [] esc = <<Ch.backslash, Ch.f>> -> Ok(<<Ch.ff>>)
      [] esc = <<Ch.backslash, Ch.n>> -> Ok(<<Ch.lf>>)
      [] esc = <<Ch.backslash, Ch.r>> -> Ok(<<Ch.cr>>)
      [] esc = <<Ch.backslash, Ch.t>> -> Ok(<<Ch.tab>>)
      [] OTHER ->
           IF Len(esc) >= 2 /\ SubSeq(esc, 1, 2) = <<Ch.backslash, Ch.u>>
           THEN LET code_point == from_str_radix(SubSeq(esc, 3, Len(esc)))
                IN  IF ~code_point.ok THEN JsonParseError
                    ELSE IF ~from_u32(code_point.val).some THEN JsonParseError
                    ELSE Ok(<<from_u32(code_point.val).val>>)
           ELSE JsonParseError

RECURSIVE StringLoop(_, _, _)
\* The loop of parse_string over the string's inner pairs, from the i-th on.
StringLoop(kids, i, result) ==
    IF i > Len(kids) THEN Ok(result)
    ELSE LET inner_pair == kids[i]
         IN  IF inner_pair.rule = "character"
             THEN StringLoop(kids, i + 1, result \o inner_pair.str)
             ELSE IF inner_pair.rule = "escape_sequence"
             THEN LET escaped == Unescape(inner_pair.str)
                  IN  IF escaped.ok THEN StringLoop(kids, i + 1, result \o escaped.val)
                      ELSE escaped
             ELSE StringLoop(kids, i + 1, result)

parse_string(pair) == StringLoop(pair.kids, 1, <<>>)

parse_number(pair) ==
    LET n == NumberFromStr(pair.str)
    IN  IF n.ok THEN n ELSE JsonParseError

RECURSIVE parse_value(_)
RECURSIVE parse_object(_)
RECURSIVE parse_array(_)
RECURSIVE ObjectLoop(_, _, _)
RECURSIVE ArrayLoop(_, _, _)

\* parse_value takes the first of the pairs it is given and dispatches on its rule.
parse_value(pairs) ==
    IF pairs = <<>> THEN JsonParseError
    ELSE LET pair == Head(pairs)
         IN  CASE pair.rule = "json" -> parse_value(pair.kids)
               [] pair.rule = "object" -> parse_object(pair)
               [] pair.rule = "array" -> parse_array(pair)
               [] pair.rule = "string" ->
                    LET r == parse_string(pair) IN IF r.ok THEN Ok(String(r.val)) ELSE r
               [] pair.rule = "number" -> parse_number(pair)
               [] pair.rule = "boolean" -> Ok(Bool(pair.str = LitTrue))
               [] pair.rule = "null" -> Ok(Null)
               [] OTHER -> JsonParseError

\* The loop of parse_object over the object's inner pairs, from the i-th on.
ObjectLoop(kids, i, map) ==
    IF i > Len(kids) THEN Ok(Object(map))
    ELSE LET inner_pair == kids[i]
             inner_rules == inner_pair.kids
             key == IF inner_rules = <<>> THEN JsonParseError
                    ELSE parse_string(Head(inner_rules))
             value == parse_value(Tail(inner_rules))
         IN  IF inner_pair.rule # "pair" THEN ObjectLoop(kids, i + 1, map)
             ELSE IF ~key.ok THEN key
             ELSE IF ~value.ok THEN value
             ELSE ObjectLoop(kids, i + 1, MapInsert(map, key.val, value.val))

parse_object(pair) == ObjectLoop(pair.kids, 1, <<>>)

\* What parse_array hands to parse_value for one element: the element's inner pairs.
ElementPairs(inner_pair) == inner_pair.kids

\* The loop of parse_array over the array's inner pairs, from the i-th on.
ArrayLoop(kids, i, array) ==
    IF i > Len(kids) THEN Ok(Array(array))
    ELSE LET value == parse_value(ElementPairs(kids[i]))
         IN  IF ~value.ok THEN value
             ELSE ArrayLoop(kids, i + 1, Append(array, value.val))

parse_array(pair) == ArrayLoop(pair.kids, 1, <<>>)

\* parse_json: the grammar's failure is JsonParseError; a match goes to parse_value.
parse_json_Lenient(json_str) ==
    LET pairs == MatchJson(json_str)
    IN  IF ~pairs.ok THEN Ok(Null)
        ELSE parse_value(<<pairs.node>>)

parse_json(json_str) ==
    LET pairs == MatchJson(json_str)
    IN  IF ~pairs.ok THEN JsonParseError
        ELSE parse_value(<<pairs.node>>)

\* minify_json: json.to_string()
minify_json(v) == WriteValue(v)

(***************************************************************************)
(* The document utilities                                                  *)
(***************************************************************************)

\* The unit value of Ok(()).
Unit == [t |-> "unit"]

SchemaValidationError == Err("SchemaValidationError")

validate_json_schema_SameKeys(v, schema) ==
    IF is_object(v) /\ is_object(schema)
    THEN IF Keys(v.o) = Keys(schema.o) THEN Ok(Unit) ELSE SchemaValidationError
    ELSE SchemaValidationError

\* validate_json_schema: both are Objects and every key of json is a key of schema.
validate_json_schema(v, schema) ==
    IF is_object(v) /\ is_object(schema)
    THEN IF \A i \in 1..Len(v.o) : contains_key(schema.o, v.o[i][1])
         THEN Ok(Unit)
         ELSE SchemaValidationError
    ELSE SchemaValidationError

\* parse_partial_json: json.get(key).cloned()
parse_partial_json(v, key) == GetKey(v, key)

edit_json_DropsOthers(v, key, new_value) ==
    IF is_object(v)
    THEN [json |-> Object(<< <<key, new_value>> >>), ret |-> Ok(Unit)]
    ELSE [json |-> v, ret |-> Err("Invalid JSON structure for editing")]

\* edit_json: the value after the call and what the call returned.
edit_json(v, key, new_value) ==
    IF is_object(v)
    THEN [json |-> Object(MapInsert(v.o, key, new_value)), ret |-> Ok(Unit)]
    ELSE [json |-> v, ret |-> Err("Invalid JSON structure for editing")]

XmlLine_AlwaysStart(kind, tag, text) == [kind |-> "start", tag |-> tag, text |-> text]

\* One line of XML output: a start tag, an end tag, a tag around a text, or an empty tag.
XmlLine(kind, tag, text) == [kind |-> kind, tag |-> tag, text |-> text]

RECURSIVE write_xml(_, _)
RECURSIVE XmlEntries(_, _)
RECURSIVE XmlItems(_, _, _)

\* The lines of an object's entries from the i-th on, each under its key.
XmlEntries(o, i) ==
    IF i > Len(o) THEN <<>> ELSE write_xml(o[i][2], o[i][1]) \o XmlEntries(o, i + 1)

\* The lines of an array's elements from the i-th on, each under the array's tag.
XmlItems(a, i, tag_name) ==
    IF i > Len(a) THEN <<>> ELSE write_xml(a[i], tag_name) \o XmlItems(a, i + 1, tag_name)

\* write_xml: the lines written for a value under a tag name.
write_xml(v, tag_name) ==
    CASE v.t = "obj" ->
           <<XmlLine("start", tag_name, <<>>)>> \o XmlEntries(v.o, 1)
           \o <<XmlLine("end", tag_name, <<>>)>>
      [] v.t = "arr" -> XmlItems(v.a, 1, tag_name)
      [] v.t = "str" -> <<XmlLine("text", tag_name, v.s)>>
      [] v.t = "num" -> <<XmlLine("text", tag_name, NumberToStr(v))>>
      [] v.t = "bool" -> <<XmlLine("text", tag_name, IF v.b THEN LitTrue ELSE LitFalse)>>
      [] v.t = "null" -> <<XmlLine("empty", tag_name, <<>>)>>

\* The tag of the top-level value: "root".
RootTag == <<Ch.r, 111, 111, Ch.t>>

convert_json_to_xml(v) == Ok([format |-> "xml", lines |-> write_xml(v, RootTag)])

\* serde_yaml::to_string: the YAML document of the value (its text is serde_yaml's).
to_yaml(v) == Ok([format |-> "yaml", lines |-> <<v>>])

convert_to_format_DefaultYaml(v, format) ==
    CASE format = "xml" -> convert_json_to_xml(v)
      [] OTHER -> to_yaml(v)

\* convert_to_format: "yaml", "xml", and an error for any other tag.
convert_to_format(v, format) ==
    CASE format = "yaml" -> to_yaml(v)
      [] format = "xml" -> convert_json_to_xml(v)
      [] OTHER -> Err("Unsupported format")

RECURSIVE TrimStartDots(_)
\* str::trim_start_matches('.')
TrimStartDots(s) ==
    IF s # <<>> /\ Head(s) = Ch.dot THEN TrimStartDots(Tail(s)) ELSE s

\* format!("{}.{}", path, key).trim_start_matches('.')
KeyPath(path, key) == TrimStartDots(path \o <<Ch.dot>> \o key)

IndexPath_OneBased(path, index) ==
    path \o <<Ch.lbracket>> \o DecDigits(index + 1) \o <<Ch.rbracket>>

\* format!("{}[{}]", path, index)
IndexPath(path, index) == path \o <<Ch.lbracket>> \o DecDigits(index) \o <<Ch.rbracket>>

RECURSIVE search_recursive(_, _, _, _)
RECURSIVE SearchEntries(_, _, _, _, _)
RECURSIVE SearchItems(_, _, _, _, _)

\* What the loop over an object's entries does with one entry: the path is pushed when
\* the value is the target String, and the search goes on into the value.
SearchEntry(value, target_value, results, new_path) ==
    search_recursive(value, target_value,
                     IF is_string(value) /\ value.s = target_value
                     THEN Append(results, new_path) ELSE results,
                     new_path)

\* The loop of search_recursive over an object's entries, from the i-th on.
SearchEntries(o, i, target_value, results, path) ==
    IF i > Len(o) THEN results
    ELSE SearchEntries(o, i + 1, target_value,
                       SearchEntry(o[i][2], target_value, results, KeyPath(path, o[i][1])),
                       path)

\* The loop of search_recursive over an array's items, from the i-th (index i - 1) on.
SearchItems(a, i, target_value, results, path) ==
    IF i > Len(a) THEN results
    ELSE SearchItems(a, i + 1, target_value,
                     search_recursive(a[i], target_value, results, IndexPath(path, i - 1)),
                     path)

\* search_recursive: results with the paths found in v appended.
search_recursive(v, target_value, results, path) ==
    CASE v.t = "obj" -> SearchEntries(v.o, 1, target_value, results, path)
      [] v.t = "arr" -> SearchItems(v.a, 1, target_value, results, path)
      [] OTHER -> results

search_by_value(v, target_value) == search_recursive(v, target_value, <<>>, <<>>)

RECURSIVE Split(_, _, _)
\* str::split(sep): the pieces of s between the separators, cur being the piece begun.
Split(s, sep, cur) ==
    IF s = <<>> THEN <<cur>>
    ELSE IF Head(s) = sep THEN <<cur>> \o Split(Tail(s), sep, <<>>)
    ELSE Split(Tail(s), sep, Append(cur, Head(s)))

\* str::parse::<usize>: digits after an optional '+'; anything else is an error.
ParseUsize(s) ==
    IF s # <<>> /\ Head(s) = Ch.plus /\ Len(s) > 1 /\ \A i \in 2..Len(s) : IsDigit(s[i])
    THEN Ok(DigitsVal(Tail(s), 0))
    ELSE IF s # <<>> /\ \A i \in 1..Len(s) : IsDigit(s[i]) THEN Ok(DigitsVal(s, 0))
    ELSE Err("ParseIntError")

IndexText_FromBracket(part, lb, rb) ==
    IF lb + 1 > rb THEN Panic ELSE Ok(SubSeq(part, lb + 1, rb))

\* The text between the first '[' (at lb) and the first ']' (at rb) of part:
\* part[lb + 1..rb], which panics when the range starts after its end.
IndexText(part, lb, rb) ==
    IF lb + 1 > rb THEN Panic ELSE Ok(SubSeq(part, lb + 2, rb))

\* current.get(name)?.get(index)?
GetNameIndex(current, name, index) ==
    IF ~GetKey(current, name).some THEN None
    ELSE GetIndex(GetKey(current, name).val, index)

RECURSIVE PathLoop(_, _, _)

\* What follows a step of the loop of get_by_path: None ends it, a value goes on.
PathNext(found, parts, i) == IF ~found.some THEN None ELSE PathLoop(found.val, parts, i + 1)

\* A part that holds both '[' and ']': the name before the '[', the index between.
IndexedPart(current, parts, i, name, text) ==
    IF "panic" \in DOMAIN text THEN Panic
    ELSE IF ~ParseUsize(text.val).ok THEN None
    ELSE PathNext(GetNameIndex(current, name, ParseUsize(text.val).val), parts, i)

\* The loop of get_by_path over the parts of the path, from the i-th on.
PathLoop(current, parts, i) ==
    IF i > Len(parts) THEN Some(current)
    ELSE IF Contains(parts[i], Ch.lbracket) /\ Contains(parts[i], Ch.rbracket)
    THEN IndexedPart(current, parts, i,
                     SubSeq(parts[i], 1, Find(parts[i], Ch.lbracket, 0)),
                     IndexText(parts[i], Find(parts[i], Ch.lbracket, 0),
                               Find(parts[i], Ch.rbracket, 0)))
    ELSE PathNext(GetKey(current, parts[i]), parts, i)

\* get_by_path: Some(value), None, or a panic.
get_by_path(v, json_path) == PathLoop(v, Split(json_path, Ch.dot, <<>>), 1)

\* format!("{:indent$}", ""): indent spaces.
Spaces(indent) == [i \in 1..indent |-> Ch.space]

\* println!("{:indent$}{}", "", key, indent = indent)
KeyLine(indent, key) == Spaces(indent) \o key

\* println!("{:indent$}[{}]", "", index, indent = indent)
IndexLine(indent, index) ==
    Spaces(indent) \o <<Ch.lbracket>> \o DecDigits(index) \o <<Ch.rbracket>>

RECURSIVE display_structure_recursive(_, _)
RECURSIVE DisplayEntries(_, _, _)
RECURSIVE DisplayItems(_, _, _)

\* The loop of display_structure_recursive over an object's entries, from the i-th on.
DisplayEntries(o, i, indent) ==
    IF i > Len(o) THEN <<>>
    ELSE <<KeyLine(indent, o[i][1])>>
         \o display_structure_recursive(o[i][2], indent + 2)
         \o DisplayEntries(o, i + 1, indent)

\* The loop of display_structure_recursive over an array's items, from the i-th on.
DisplayItems(a, i, indent) ==
    IF i > Len(a) THEN <<>>
    ELSE <<IndexLine(indent, i - 1)>>
         \o display_structure_recursive(a[i], indent + 2)
         \o DisplayItems(a, i + 1, indent)

\* display_structure_recursive: the lines printed for v at an indentation.
display_structure_recursive(v, indent) ==
    CASE v.t = "obj" -> DisplayEntries(v.o, 1, indent)
      [] v.t = "arr" -> DisplayItems(v.a, 1, indent)
      [] OTHER -> <<>>

display_structure_Indented(v) == display_structure_recursive(v, 2)

\* display_structure: the lines printed.
display_structure(v) == display_structure_recursive(v, 0)

\* ParserError::FileReadError, from the io::Error of File::open.
FileReadError == Err("FileReadError")

\* StreamDeserializer::next over a reader: the next top-level value of the file, or
\* its parse error; None at the end of the input, and None after an error.
stream_next(values, pos, failed) ==
    IF failed \/ pos > Len(values) THEN None ELSE Some(values[pos])

\* What the loop of handle_large_json logs for one item of the stream.
ChunkReport(value) ==
    IF value.ok THEN [level |-> "info", chunk |-> value.val]
    ELSE [level |-> "error", chunk |-> NoValue]

\* handle_large_json before the loop: the file opened and the stream at its start,
\* or the error of File::open returned.
handle_large_open(opens) ==
    IF opens
    THEN [op |-> "handle_large_json", pc |-> "loop", pos |-> 1, failed |-> FALSE,
          log |-> <<>>, ret |-> NoValue]
    ELSE [op |-> "handle_large_json", pc |-> "done", pos |-> 1, failed |-> FALSE,
          log |-> <<>>, ret |-> FileReadError]

handle_large_chunk_Propagates(c, value) ==
    IF value.ok
    THEN [c EXCEPT !.pos = c.pos + 1, !.log = Append(c.log, ChunkReport(value))]
    ELSE [c EXCEPT !.pc = "done", !.ret = value]

\* One iteration of the loop of handle_large_json on the item the stream gave: the
\* item is logged, and the stream has moved on and remembers a failure.
handle_large_chunk(c, value) ==
    [c EXCEPT !.pos = c.pos + 1,
              !.failed = ~value.ok,
              !.log = Append(c.log, ChunkReport(value))]

(***************************************************************************)
(* Input texts                                                             *)
(***************************************************************************)

\* The nesting depth of the texts parsed.
MaxDepth == 3

\* The number of leading chars of a text of which one is dropped to break it.
MaxCut == 6

Quoted(s) == <<Ch.quote>> \o s \o <<Ch.quote>>

\* \uXXXX
UEscape(h1, h2, h3, h4) == <<Ch.backslash, Ch.u, h1, h2, h3, h4>>

StringLexemes ==
    { Quoted(<<>>), Quoted(<<Ch.a>>), Quoted(<<Ch.x>>), Quoted(<<Ch.a, Ch.space, Ch.b>>),
      Quoted(<<Ch.backslash, Ch.n>>), Quoted(<<Ch.backslash, Ch.slash>>),
      Quoted(<<Ch.backslash, Ch.quote>>), Quoted(<<Ch.tab>>), Quoted(<<233>>),
      Quoted(UEscape(Ch.zero, Ch.zero, Ch.e, Ch.nine)),
      Quoted(UEscape(Ch.zero, Ch.zero, Ch.zero, Ch.zero + 1)),
      Quoted(<<Ch.x>> \o UEscape(Ch.a + 3, Ch.nine - 1, Ch.zero, Ch.zero)) }

NumberLexemes ==
    { <<Ch.zero>>, <<Ch.zero + 1>>, <<Ch.minus, Ch.zero>>, <<Ch.minus, Ch.zero + 1>>,
      <<Ch.zero + 1, Ch.zero + 2>>, <<Ch.zero + 1, Ch.dot, Ch.zero + 5>>,
      <<Ch.zero + 1, Ch.dot, Ch.zero>>, <<Ch.zero + 1, Ch.e, Ch.zero + 2>>,
      <<Ch.zero + 1, Ch.zero + 2, Ch.E, Ch.minus, Ch.zero + 3>>,
      <<Ch.zero + 1, Ch.e, Ch.nine, Ch.nine, Ch.nine>>,
      <<Ch.zero, Ch.zero + 1>> }

Scalars == StringLexemes \cup NumberLexemes \cup {LitTrue, LitFalse, LitNull}

\* The scalars of the two-member containers.
FewScalars == {<<Ch.zero + 1>>, Quoted(<<Ch.a>>)}

\* Key texts: "a", "b", and "a", which is the key a again.
KeyLexemes ==
    { Quoted(<<Ch.a>>), Quoted(<<Ch.b>>), Quoted(UEscape(Ch.zero, Ch.zero, Ch.zero + 6, Ch.zero + 1)) }

RECURSIVE Joined(_, _)
\* The texts of xs, separated by sep.
Joined(xs, sep) ==
    IF xs = <<>> THEN <<>>
    ELSE IF Len(xs) = 1 THEN xs[1]
    ELSE xs[1] \o sep \o Joined(Tail(xs), sep)

\* The text of an array of the element texts xs, sp after each bracket and comma.
ArrayText(xs, sp) ==
    <<Ch.lbracket>> \o sp \o Joined(xs, <<Ch.comma>> \o sp) \o sp \o <<Ch.rbracket>>

MemberText(k, x, sp) == k \o sp \o <<Ch.colon>> \o sp \o x

\* The text of an object of the member texts ms.
ObjectText(ms, sp) ==
    <<Ch.lbrace>> \o sp \o Joined(ms, <<Ch.comma>> \o sp) \o sp \o <<Ch.rbrace>>

\* The containers of scalars, written with the spacing sp.
FlatTexts(sp) ==
    {ArrayText(<<>>, sp), ObjectText(<<>>, sp)}
    \cup {ArrayText(<<x>>, sp) : x \in Scalars}
    \cup {ArrayText(<<x, y>>, sp) : x \in FewScalars, y \in FewScalars}
    \cup {ObjectText(<<MemberText(k, x, sp)>>, sp) : k \in KeyLexemes, x \in Scalars}
    \cup {ObjectText(<<MemberText(k[1], x, sp), MemberText(k[2], y, sp)>>, sp) :
            k \in KeyLexemes \X KeyLexemes, x \in FewScalars, y \in {<<Ch.zero + 2>>}}

\* Each text of S as the only element of an array and the only member of an object.
Wrapped(S) ==
    {ArrayText(<<x>>, <<>>) : x \in S}
    \cup {ObjectText(<<MemberText(Quoted(<<Ch.a>>), x, <<>>)>>, <<>>) : x \in S}

RECURSIVE NestedTexts(_)
\* The containers of depth d at most.
NestedTexts(d) ==
    IF d <= 1 THEN FlatTexts(<<>>)
    ELSE NestedTexts(d - 1) \cup Wrapped(NestedTexts(d - 1))

\* A text without its i-th char (the text itself when it has none).
WithoutChar(t, i) ==
    IF i > Len(t) THEN t ELSE SubSeq(t, 1, i - 1) \o SubSeq(t, i + 1, Len(t))

\* An object whose keys are not quoted, such as {a:1,b:2}.
UnquotedKeyTexts ==
    {ObjectText(<<MemberText(<<Ch.a>>, x, sp)>>, sp) : x \in FewScalars, sp \in {<<>>, <<Ch.space>>}}
    \cup {ObjectText(<<MemberText(<<Ch.a>>, x, <<>>), MemberText(<<Ch.b>>, x, <<>>)>>, <<>>) :
            x \in FewScalars}

\* Texts that need not be JSON: scalars alone, texts with a char dropped or added.
BrokenTexts ==
    Scalars \cup {<<>>} \cup UnquotedKeyTexts
    \cup {WithoutChar(t, i) : t \in FlatTexts(<<>>), i \in 1..MaxCut}
    \cup {t \o <<Ch.rbracket>> : t \in FlatTexts(<<>>)}

Texts ==
    NestedTexts(MaxDepth) \cup FlatTexts(<<Ch.space>>) \cup FlatTexts(<<Ch.lf, Ch.tab>>)
    \cup BrokenTexts

(***************************************************************************)
(* Parsing a text: parse_json, minify_json, and the minified text parsed   *)
(* again                                                                   *)
(***************************************************************************)

Idle == [op |-> "none"]

InitParse ==
    /\ preserve_order \in BOOLEAN
    /\ input \in {[op |-> "parse_json", json_str |-> t] : t \in Texts}
    /\ json = NoValue
    /\ call = Idle

\* let json = parse_json(json_str)?
ParseJson ==
    /\ input.op = "parse_json"
    /\ LET ret == parse_json(input.json_str)
       IN  /\ call' = [op |-> "parse_json", ret |-> ret]
           /\ json' = IF ret.ok THEN ret.val ELSE NoValue
    /\ UNCHANGED <<preserve_order, input>>

\* minify_json(&json) on the tree parse_json built.
MinifyJson ==
    /\ input.op = "parse_json"
    /\ json # NoValue
    /\ call' = [op |-> "minify_json", text |-> minify_json(json)]
    /\ UNCHANGED <<preserve_order, input, json>>

\* parse_json on the text minify_json returned; json still holds the first tree.
ReparseMinified ==
    /\ call.op = "minify_json"
    /\ call' = [op |-> "reparse", text |-> call.text, ret |-> parse_json(call.text)]
    /\ UNCHANGED <<preserve_order, input, json>>

NextParse == ParseJson \/ MinifyJson \/ ReparseMinified

SpecParse == InitParse /\ [][NextParse]_vars


(***************************************************************************)
(* Claims about parsing and minifying                                      *)
(***************************************************************************)

\* C1: re-parsing the minified text of a tree that parse_json produced succeeds and
\* gives a tree equal to the original.
C1_MinifyRoundTrip ==
    call.op = "reparse" => (call.ret.ok /\ ValueEq(call.ret.val, json))

\* C2: parse_json returns Ok for every text the grammar accepts, whether its top level
\* is an object or an array.
C2_ValidJsonParses ==
    (call.op = "parse_json" /\ MatchJson(input.json_str).ok) => call.ret.ok

\* C3: for every text the grammar rejects, parse_json returns the JsonParseError and
\* no tree at all.
C3_GrammarMismatchIsError ==
    (call.op = "parse_json" /\ ~MatchJson(input.json_str).ok)
        => (call.ret = JsonParseError /\ json = NoValue)

\* parse_json has answered a text whose key is not quoted.
C3_Witness ==
    /\ call.op = "parse_json"
    /\ input.json_str \in UnquotedKeyTexts
    /\ ~MatchJson(input.json_str).ok
    /\ call.ret = JsonParseError

(***************************************************************************)
(* Documents and requests of the utilities                                 *)
(***************************************************************************)

MaxLen == 2
MaxIndex == 2

RECURSIVE SeqsUpTo(_, _)
\* The sequences over S of length at most n.
SeqsUpTo(S, n) ==
    IF n = 0 THEN {<<>>}
    ELSE SeqsUpTo(S, n - 1) \cup {Append(p, x) : p \in SeqsUpTo(S, n - 1), x \in S}

KeyA == <<Ch.a>>
KeyB == <<Ch.b>>
KeyC == <<99>>
StrX == String(<<Ch.x>>)
StrY == String(<<Ch.y>>)

DocKeys == {KeyA, KeyB}
Leaves == {Null, Bool(TRUE), Int64(1), StrX, StrY}
FewLeaves == {StrX, Int64(1)}

\* Scalars, and arrays and objects of scalars.
FlatTrees ==
    Leaves
    \cup {Array(a) : a \in SeqsUpTo(FewLeaves, MaxLen)}
    \cup {Array(<<u>>) : u \in Leaves}
    \cup {Object(<<>>)}
    \cup {Object(<< <<k, u>> >>) : k \in DocKeys, u \in Leaves}
    \cup {Object(<< <<KeyA, u>>, <<KeyB, v>> >>) : u \in FewLeaves, v \in Leaves}
    \cup {Object(<< <<KeyB, u>>, <<KeyA, v>> >>) : u \in FewLeaves, v \in FewLeaves}

\* The trees of S, each as an array element or as an object member.
Nest(S) ==
    {Array(<<u>>) : u \in S}
    \cup {Array(<<Null, u>>) : u \in S}
    \cup {Object(<< <<KeyA, u>> >>) : u \in S}
    \cup {Object(<< <<KeyA, StrX>>, <<KeyB, u>> >>) : u \in S}

\* The documents of the tests, with short keys:
\* {"a":{"b":[{"a":"x"},{"a":"y"}]}} and {"a":"x","b":{"a":1,"b":"x"}}.
ExampleTrees ==
    { Object(<< <<KeyA, Object(<< <<KeyB, Array(<< Object(<< <<KeyA, StrX>> >>),
                                                   Object(<< <<KeyA, StrY>> >>) >>)>> >>)>> >>),
      Object(<< <<KeyA, StrX>>,
                <<KeyB, Object(<< <<KeyA, Int64(1)>>, <<KeyB, StrX>> >>)>> >>) }

\* Documents with an empty key, with keys that hold a dot or brackets, and with an
\* array as an element of an array: {"":"x"}, {"a.b":"x"}, {"a[0]":"x"}, {"a":[["x"]]}.
OddTrees ==
    { Object(<< << <<>>, StrX >> >>),
      Object(<< << <<Ch.a, Ch.dot, Ch.b>>, StrX >> >>),
      Object(<< << <<Ch.a, Ch.lbracket, Ch.zero, Ch.rbracket>>, StrX >> >>),
      Object(<< <<KeyA, Array(<< Array(<<StrX>>) >>)>> >>) }

DocTrees == FlatTrees \cup Nest(FlatTrees) \cup ExampleTrees \cup OddTrees

RECURSIVE MapOrdered(_)
\* A tree the map of the build can hold: keys are distinct, and sorted unless the
\* map keeps insertion order.
MapOrdered(v) ==
    CASE v.t = "obj" ->
           /\ \A i \in 1..Len(v.o) : MapOrdered(v.o[i][2])
           /\ \A i, j \in 1..Len(v.o) :
                  i < j => /\ v.o[i][1] # v.o[j][1]
                           /\ preserve_order \/ StrLess(v.o[i][1], v.o[j][1])
      [] v.t = "arr" -> \A i \in 1..Len(v.a) : MapOrdered(v.a[i])
      [] OTHER -> TRUE

\* A path segment: a key, and an index or -1 for none.
Segment(key, index) == [key |-> key, index |-> index]
Segments == {Segment(k, i) : k \in DocKeys, i \in -1..MaxIndex}

SegmentText(seg) ==
    IF seg.index = -1 THEN seg.key
    ELSE seg.key \o <<Ch.lbracket>> \o DecDigits(seg.index) \o <<Ch.rbracket>>

RECURSIVE PathText(_)
\* The path text of a list of segments: the segments joined by dots.
PathText(segs) ==
    IF Len(segs) = 1 THEN SegmentText(segs[1])
    ELSE SegmentText(segs[1]) \o <<Ch.dot>> \o PathText(Tail(segs))

\* The path of the test: a.b[1].a
ExamplePath == <<Segment(KeyA, -1), Segment(KeyB, 1), Segment(KeyA, -1)>>

SegmentLists ==
    {<<s>> : s \in Segments} \cup {<<s, r>> : s \in Segments, r \in Segments}
    \cup {ExamplePath}

\* Segments whose index part is malformed: not a number, negative, empty, a bracket
\* missing or one too many, and the closing bracket before the opening one.
MalformedSegments ==
    { KeyA \o <<Ch.lbracket, Ch.x, Ch.rbracket>>,
      KeyA \o <<Ch.lbracket, Ch.minus, 49, Ch.rbracket>>,
      KeyA \o <<Ch.lbracket, Ch.rbracket>>,
      KeyA \o <<Ch.lbracket, Ch.zero>>,
      KeyA \o <<Ch.zero, Ch.rbracket>>,
      KeyA \o <<Ch.lbracket, Ch.lbracket, Ch.zero, Ch.rbracket>>,
      KeyA \o <<Ch.rbracket, Ch.zero, Ch.lbracket>>,
      <<Ch.rbracket, Ch.lbracket>> }

MalformedPaths ==
    MalformedSegments \cup {k \o <<Ch.dot>> \o m : k \in DocKeys, m \in MalformedSegments}

Schemas ==
    { Object(<<>>),
      Object(<< <<KeyA, String(<<>>)>> >>),
      Object(<< <<KeyB, Int64(0)>> >>),
      Object(<< <<KeyA, String(<<>>)>>, <<KeyB, Int64(0)>> >>),
      Object(<< <<KeyA, String(<<>>)>>, <<KeyB, Int64(0)>>, <<KeyC, String(<<>>)>> >>),
      Array(<<>>), Null, StrX }

EditValues == {StrY, Null, Array(<<Int64(1)>>)}
EditKeys == {KeyA, KeyB, KeyC}
Formats == {"yaml", "xml", "json", "YAML", "Xml", "yml", "xml ", ""}

Requests ==
    {[op |-> "search_by_value", target_value |-> v.s] : v \in {StrX, StrY}}
    \cup {[op |-> "get_by_path", json_path |-> PathText(segs), segs |-> segs]
            : segs \in SegmentLists}
    \cup {[op |-> "get_by_path", json_path |-> p, segs |-> <<>>] : p \in MalformedPaths}
    \cup {[op |-> "validate_json_schema", schema |-> sc] : sc \in Schemas}
    \cup {[op |-> "edit_json", key |-> k, new_value |-> v] : k \in EditKeys, v \in EditValues}
    \cup {[op |-> "parse_partial_json", key |-> k] : k \in EditKeys}
    \cup {[op |-> "convert_to_format", format |-> f] : f \in Formats}
    \cup {[op |-> "display_structure"]}

(***************************************************************************)
(* The utilities applied to a document                                     *)
(***************************************************************************)

InitDoc ==
    /\ preserve_order \in BOOLEAN
    /\ json \in {v \in DocTrees : MapOrdered(v)}
    /\ input \in Requests
    /\ call = Idle

SearchByValue ==
    /\ input.op = "search_by_value" /\ call = Idle
    /\ call' = [op |-> "search_by_value", ret |-> search_by_value(json, input.target_value)]
    /\ UNCHANGED <<preserve_order, input, json>>

GetByPath ==
    /\ input.op = "get_by_path" /\ call = Idle
    /\ call' = [op |-> "get_by_path", ret |-> get_by_path(json, input.json_path)]
    /\ UNCHANGED <<preserve_order, input, json>>

ValidateJsonSchema ==
    /\ input.op = "validate_json_schema" /\ call = Idle
    /\ call' = [op |-> "validate_json_schema", ret |-> validate_json_schema(json, input.schema)]
    /\ UNCHANGED <<preserve_order, input, json>>

EditJson ==
    /\ input.op = "edit_json" /\ call = Idle
    /\ json' = edit_json(json, input.key, input.new_value).json
    /\ call' = [op |-> "edit_json", ret |-> edit_json(json, input.key, input.new_value).ret]
    /\ UNCHANGED <<preserve_order, input>>

\* parse_partial_json, on the document as it is or as edit_json left it.
ParsePartialJson ==
    /\ \/ input.op = "parse_partial_json" /\ call = Idle
       \/ input.op = "edit_json" /\ call.op = "edit_json"
    /\ call' = [op |-> "parse_partial_json", ret |-> parse_partial_json(json, input.key)]
    /\ UNCHANGED <<preserve_order, input, json>>

ConvertToFormat ==
    /\ input.op = "convert_to_format" /\ call = Idle
    /\ call' = [op |-> "convert_to_format", ret |-> convert_to_format(json, input.format)]
    /\ UNCHANGED <<preserve_order, input, json>>

DisplayStructure ==
    /\ input.op = "display_structure" /\ call = Idle
    /\ call' = [op |-> "display_structure", ret |-> display_structure(json)]
    /\ UNCHANGED <<preserve_order, input, json>>

\* get_by_path on one of the paths that search_by_value returned.
GetByFoundPath ==
    /\ call.op = "search_by_value"
    /\ \E i \in 1..Len(call.ret) :
           call' = [op |-> "get_by_found_path", json_path |-> call.ret[i],
                    ret |-> get_by_path(json, call.ret[i])]
    /\ UNCHANGED <<preserve_order, input, json>>

NextDoc ==
    \/ SearchByValue
    \/ GetByPath
    \/ ValidateJsonSchema
    \/ EditJson
    \/ ParsePartialJson
    \/ ConvertToFormat
    \/ DisplayStructure
    \/ GetByFoundPath

SpecDoc == InitDoc /\ [][NextDoc]_vars


(***************************************************************************)
(* Claims about the utilities                                              *)
(***************************************************************************)

RECURSIVE LeafPaths(_, _, _)

\* The paths, under a child at path p, of the String leaves equal to the target.
ChildPaths(child, target_value, p) ==
    IF is_string(child) /\ child.s = target_value THEN {p}
    ELSE LeafPaths(child, target_value, p)

\* The paths of the String leaves equal to the target among the object members and
\* array elements of v, at any depth.
LeafPaths(v, target_value, path) ==
    CASE v.t = "obj" ->
           UNION {ChildPaths(v.o[i][2], target_value, KeyPath(path, v.o[i][1]))
                    : i \in 1..Len(v.o)}
      [] v.t = "arr" ->
           UNION {ChildPaths(v.a[i], target_value, IndexPath(path, i - 1))
                    : i \in 1..Len(v.a)}
      [] OTHER -> {}

\* C4: search_by_value returns the path of every String leaf equal to the target,
\* whether the leaf is an object member or an array element, and no other path.
C4_SearchFindsEveryLeaf ==
    call.op = "search_by_value"
        => {call.ret[i] : i \in 1..Len(call.ret)} = LeafPaths(json, input.target_value, <<>>)

RECURSIVE Descend(_, _)

\* The index step of a segment, when the segment has an index.
DescendIndex(found, index) ==
    IF ~found.some \/ index = -1 THEN found ELSE GetIndex(found.val, index)

\* What follows one segment of a descent.
DescendNext(found, rest) == IF ~found.some THEN None ELSE Descend(found.val, rest)

\* Descending from v by the segments: the member named by the key, then the element
\* at the index if the segment has one.
Descend(v, segs) ==
    IF segs = <<>> THEN Some(v)
    ELSE DescendNext(DescendIndex(GetKey(v, Head(segs).key), Head(segs).index), Tail(segs))

\* C5: for a path of bare keys and key[index] segments, get_by_path returns Some(v)
\* exactly when descending by the segments reaches a value, and v is that value.
C5_PathDescends ==
    (call.op = "get_by_path" /\ input.segs # <<>>)
        => call.ret = Descend(json, input.segs)

\* get_by_path has answered the path a.b[1].a on the document of the test.
C5_Witness ==
    /\ call.op = "get_by_path"
    /\ input.segs = ExamplePath
    /\ call.ret = Some(StrY)

\* C6: get_by_path returns None, and does not panic, when the path does not resolve:
\* a key is missing, a non-container is met, an index is out of range, or an index
\* segment is malformed.
C6_UnresolvedPathIsNone ==
    (/\ call.op = "get_by_path"
     /\ \/ input.json_path \in MalformedPaths
        \/ input.segs # <<>> /\ Descend(json, input.segs) = None)
        => call.ret = None

C8_MissingSchemaKeyIsError ==
    (/\ call.op = "validate_json_schema"
     /\ is_object(json) /\ is_object(input.schema)
     /\ ~(Keys(input.schema.o) \subseteq Keys(json.o)))
        => ~call.ret.ok

\* C9: on an Object edit_json returns Ok, the key holds the new value, the other keys
\* are as they were, and parse_partial_json of the key is Some(new value); on anything
\* else edit_json returns an error and the document is unchanged.
C9_EditJson ==
    [][(input.op = "edit_json" /\ call = Idle) =>
         IF is_object(json)
         THEN /\ call'.ret = Ok(Unit)
              /\ is_object(json')
              /\ Keys(json'.o) = Keys(json.o) \cup {input.key}
              /\ Len(json'.o) = Cardinality(Keys(json'.o))
              /\ MapGet(json'.o, input.key) = Some(input.new_value)
              /\ \A k \in Keys(json.o) \ {input.key} : MapGet(json'.o, k) = MapGet(json.o, k)
              /\ parse_partial_json(json', input.key) = Some(input.new_value)
         ELSE /\ ~call'.ret.ok
              /\ json' = json]_vars

\* edit_json has put a new key into an Object that had others, and parse_partial_json
\* has read it back.
C9_Witness ==
    /\ input.op = "edit_json"
    /\ call.op = "parse_partial_json"
    /\ is_object(json) /\ Len(json.o) = 3
    /\ call.ret = Some(input.new_value)

\* C10: convert_to_format returns an error for every format tag other than exactly
\* "yaml" and "xml".
C10_OtherFormatIsError ==
    (call.op = "convert_to_format" /\ input.format \notin {"yaml", "xml"})
        => call.ret = Err("Unsupported format")

\* convert_to_format has answered the tag "YAML".
C10_Witness ==
    /\ call.op = "convert_to_format"
    /\ input.format = "YAML"
    /\ ~call.ret.ok


RECURSIVE CountNodes(_, _)
RECURSIVE CountIn(_, _, _)

\* The number of nodes among the children from the i-th on, and below them.
CountIn(children, i, tags) ==
    IF i > Len(children) THEN 0
    ELSE CountNodes(children[i], tags) + CountIn(children, i + 1, tags)

\* The number of nodes of the tree v, v included, whose variant is one of tags.
CountNodes(v, tags) ==
    (IF v.t \in tags THEN 1 ELSE 0)
    + CASE v.t = "obj" -> CountIn([i \in 1..Len(v.o) |-> v.o[i][2]], 1, tags)
        [] v.t = "arr" -> CountIn(v.a, 1, tags)
        [] OTHER -> 0

RECURSIVE NestedFrom(_, _, _)
\* Every end tag from the i-th line on closes the innermost open start tag, and no
\* start tag stays open.
NestedFrom(lines, i, open) ==
    IF i > Len(lines) THEN open = <<>>
    ELSE CASE lines[i].kind = "start" -> NestedFrom(lines, i + 1, <<lines[i].tag>> \o open)
           [] lines[i].kind = "end" ->
                /\ open # <<>>
                /\ Head(open) = lines[i].tag
                /\ NestedFrom(lines, i + 1, Tail(open))
           [] OTHER -> NestedFrom(lines, i + 1, open)

KindIs(lines, kinds) == {i \in 1..Len(lines) : lines[i].kind \in kinds}

IsLeafLine(line) == line.kind \in {"text", "empty"}

RECURSIVE LeafLines(_, _)
RECURSIVE LeafLinesIn(_, _, _)

\* The leaves below the children from the i-th on; tags[i] is the tag of the i-th.
LeafLinesIn(children, tags, i) ==
    IF i > Len(children) THEN <<>>
    ELSE LeafLines(children[i], tags[i]) \o LeafLinesIn(children, tags, i + 1)

\* The leaves of v in stored order, each with the tag it is written under: the key
\* of the nearest enclosing member, or the given tag.
LeafLines(v, tag) ==
    CASE v.t = "obj" -> LeafLinesIn([i \in 1..Len(v.o) |-> v.o[i][2]],
                                    [i \in 1..Len(v.o) |-> v.o[i][1]], 1)
      [] v.t = "arr" -> LeafLinesIn(v.a, [i \in 1..Len(v.a) |-> tag], 1)
      [] v.t = "null" -> <<[kind |-> "empty", tag |-> tag, text |-> <<>>]>>
      [] v.t = "str" -> <<[kind |-> "text", tag |-> tag, text |-> v.s]>>
      [] v.t = "num" -> <<[kind |-> "text", tag |-> tag, text |-> NumberToStr(v)]>>
      [] v.t = "bool" -> <<[kind |-> "text", tag |-> tag,
                            text |-> IF v.b THEN LitTrue ELSE LitFalse]>>

\* The lines written for the top-level value, by its variant.
TopLevelShape(v, lines) ==
    CASE v.t = "obj" ->
           /\ Len(lines) >= 2
           /\ lines[1] = [kind |-> "start", tag |-> RootTag, text |-> <<>>]
           /\ lines[Len(lines)] = [kind |-> "end", tag |-> RootTag, text |-> <<>>]
      [] v.t = "arr" -> v.a = <<>> => lines = <<>>
      [] OTHER -> lines = LeafLines(v, RootTag)

\* The lines the call returned are those of the XML emission of the document.
XmlEmission(v, lines) ==
    /\ NestedFrom(lines, 1, <<>>)
    /\ Cardinality(KindIs(lines, {"start"})) = CountNodes(v, {"obj"})
    /\ Cardinality(KindIs(lines, {"end"})) = CountNodes(v, {"obj"})
    /\ Cardinality(KindIs(lines, {"text"})) = CountNodes(v, {"str", "num", "bool"})
    /\ Cardinality(KindIs(lines, {"empty"})) = CountNodes(v, {"null"})
    /\ SelectSeq(lines, IsLeafLine) = LeafLines(v, RootTag)
    /\ TopLevelShape(v, lines)

MaxChunks == 3

\* What serde_json makes of one top-level value of a file: a value or a syntax error.
Chunks == {Ok(Object(<<>>)), Ok(Int64(1)), Err("syntax")}

LargeRequests ==
    {[op |-> "handle_large_json", opens |-> o, values |-> vs]
       : o \in BOOLEAN, vs \in SeqsUpTo(Chunks, MaxChunks)}

InitLarge ==
    /\ preserve_order \in BOOLEAN
    /\ json = NoValue
    /\ input \in LargeRequests
    /\ call = Idle

OpenFile ==
    /\ input.op = "handle_large_json" /\ call = Idle
    /\ call' = handle_large_open(input.opens)
    /\ UNCHANGED <<preserve_order, input, json>>

NextChunk ==
    /\ call.op = "handle_large_json" /\ call.pc = "loop"
    /\ stream_next(input.values, call.pos, call.failed).some
    /\ call' = handle_large_chunk(call, stream_next(input.values, call.pos, call.failed).val)
    /\ UNCHANGED <<preserve_order, input, json>>

ReturnOk ==
    /\ call.op = "handle_large_json" /\ call.pc = "loop"
    /\ ~stream_next(input.values, call.pos, call.failed).some
    /\ call' = [call EXCEPT !.pc = "done", !.ret = Ok(Unit)]
    /\ UNCHANGED <<preserve_order, input, json>>

NextLarge == OpenFile \/ NextChunk \/ ReturnOk

SpecLarge == InitLarge /\ [][NextLarge]_vars

\* C12: handle_large_json goes through the successive values of the file to the end
\* of the input: every value is reported, a failed one as a failure of its own, and
\* the values after a failed one are parsed and reported too.
C12_EveryChunkReported ==
    (call.op = "handle_large_json" /\ call.pc = "done" /\ input.opens)
        => /\ Len(call.log) = Len(input.values)
           /\ \A i \in 1..Len(input.values) : call.log[i] = ChunkReport(input.values[i])

MaxUnits == 2

\* The code points written as \uXXXX: around the surrogates and at the ends.
EscapeCodes == {0, 65, 233, 43981, 55295, 55296, 56320, 57343, 57344, 65535}

\* One unit of a string text: a character written as it is, or as a \u escape with
\* upper-case or lower-case hex digits.
StringUnits ==
    {[esc |-> FALSE, cp |-> c, upper |-> FALSE] : c \in {Ch.a, 233}}
    \cup {[esc |-> TRUE, cp |-> c, upper |-> u] : c \in EscapeCodes, u \in BOOLEAN}

\* The hex digit character of d.
HexChar(d, upper) == IF d < 10 THEN Ch.zero + d ELSE IF upper THEN Ch.A + d - 10 ELSE Ch.a + d - 10

\* The four hex digits of a code point.
HexText(cp, upper) ==
    <<HexChar(cp \div 4096, upper), HexChar((cp \div 256) % 16, upper),
      HexChar((cp \div 16) % 16, upper), HexChar(cp % 16, upper)>>

UnitText(unit) ==
    IF unit.esc THEN <<Ch.backslash, Ch.u>> \o HexText(unit.cp, unit.upper) ELSE <<unit.cp>>

\* The text {"a":"..."} whose string is made of the units.
StringMemberText(units) ==
    ObjectText(<<MemberText(Quoted(<<Ch.a>>),
                            Quoted(Joined([i \in 1..Len(units) |-> UnitText(units[i])], <<>>)),
                            <<>>)>>, <<>>)

StringRequests ==
    {[op |-> "parse_string", units |-> us, json_str |-> StringMemberText(us)]
       : us \in SeqsUpTo(StringUnits, MaxUnits)}

InitString ==
    /\ preserve_order \in BOOLEAN
    /\ json = NoValue
    /\ input \in StringRequests
    /\ call = Idle

\* parse_json on an object whose member is the string.
ParseStringMember ==
    /\ input.op = "parse_string" /\ call = Idle
    /\ call' = [op |-> "parse_string", ret |-> parse_json(input.json_str)]
    /\ json' = IF parse_json(input.json_str).ok THEN parse_json(input.json_str).val ELSE NoValue
    /\ UNCHANGED <<preserve_order, input>>

\* The string read back from the tree.
ReadStringMember ==
    /\ call.op = "parse_string" /\ call.ret.ok
    /\ call' = [op |-> "read_string", ret |-> parse_partial_json(json, <<Ch.a>>)]
    /\ UNCHANGED <<preserve_order, input, json>>

NextString == ParseStringMember \/ ReadStringMember

SpecString == InitString /\ [][NextString]_vars

IsSurrogate(cp) == cp >= 55296 /\ cp <= 57343

\* C13: every \uXXXX escape of a string becomes exactly one character, the one with
\* that code point, and an escape of a surrogate half makes the whole parse fail.
C13_UnicodeEscapes ==
    /\ call.op = "parse_string" =>
         IF \E i \in 1..Len(input.units) : input.units[i].esc /\ IsSurrogate(input.units[i].cp)
         THEN call.ret = JsonParseError /\ json = NoValue
         ELSE call.ret = Ok(Object(<< <<KeyA, String([i \in 1..Len(input.units)
                                                       |-> input.units[i].cp])>> >>))
    /\ call.op = "read_string" =>
         /\ call.ret.some /\ is_string(call.ret.val)
         /\ Len(call.ret.val.s) = Len(input.units)
         /\ \A i \in 1..Len(input.units) : call.ret.val.s[i] = input.units[i].cp

\* parse_json has refused a string whose second escape is the surrogate half D800.
C13_Witness ==
    /\ call.op = "parse_string"
    /\ Len(input.units) = 2
    /\ input.units[1] = [esc |-> TRUE, cp |-> 233, upper |-> TRUE]
    /\ input.units[2].esc /\ input.units[2].cp = 55296
    /\ call.ret = JsonParseError


(***************************************************************************)
(* Objects and arrays built from their members and elements                *)
(***************************************************************************)

MaxMembers == 3
MaxElems == 2

\* The members of an object text: a key and the number written as its value.
Members == {[key |-> k, value |-> n] : k \in {KeyA, KeyB, KeyC}, n \in 1..2}

MembersText(ms) ==
    ObjectText([i \in 1..Len(ms) |-> MemberText(Quoted(ms[i].key), DecDigits(ms[i].value), <<>>)],
               <<>>)

\* The texts of values: 1, "x", true, null, {}, [], {"a":1}, [1].
ElementTexts ==
    { <<Ch.zero + 1>>, Quoted(<<Ch.x>>), LitTrue, LitNull,
      <<Ch.lbrace, Ch.rbrace>>, <<Ch.lbracket, Ch.rbracket>>,
      MembersText(<<[key |-> KeyA, value |-> 1]>>),
      <<Ch.lbracket, Ch.zero + 1, Ch.rbracket>> }

\* The text {"a":x} of the value text x.
AsMember(x) == ObjectText(<<MemberText(Quoted(KeyA), x, <<>>)>>, <<>>)

BuildRequests ==
    {[op |-> "parse_members", members |-> ms, json_str |-> MembersText(ms)]
       : ms \in SeqsUpTo(Members, MaxMembers)}
    \cup {[op |-> "parse_elements", elems |-> es, json_str |-> AsMember(ArrayText(es, <<>>))]
            : es \in SeqsUpTo(ElementTexts, MaxElems)}

InitBuild ==
    /\ preserve_order \in BOOLEAN
    /\ json = NoValue
    /\ input \in BuildRequests
    /\ call = Idle

\* parse_json on an object text given by its members.
ParseMembers ==
    /\ input.op = "parse_members" /\ call = Idle
    /\ call' = [op |-> "parse_members", ret |-> parse_json(input.json_str)]
    /\ json' = IF parse_json(input.json_str).ok THEN parse_json(input.json_str).val ELSE NoValue
    /\ UNCHANGED <<preserve_order, input>>

\* parse_json on an array given by its element texts, and on each element text as
\* the value of an object member.
ParseElements ==
    /\ input.op = "parse_elements" /\ call = Idle
    /\ call' = [op |-> "parse_elements",
                ret |-> parse_json(input.json_str),
                members |-> [i \in 1..Len(input.elems) |-> parse_json(AsMember(input.elems[i]))]]
    /\ json' = IF parse_json(input.json_str).ok THEN parse_json(input.json_str).val ELSE NoValue
    /\ UNCHANGED <<preserve_order, input>>

NextBuild == ParseMembers \/ ParseElements

SpecBuild == InitBuild /\ [][NextBuild]_vars

\* The keys of the members, each once, in the order of their first occurrence.
FirstSeen(ms) ==
    LET first == {i \in 1..Len(ms) : \A j \in 1..(i - 1) : ms[j].key # ms[i].key}
    IN  [n \in 1..Cardinality(first) |->
            ms[CHOOSE i \in first : Cardinality({j \in first : j <= i}) = n].key]

\* The value of the last member with key k.
LastValue(ms, k) ==
    Int64(ms[CHOOSE i \in 1..Len(ms) :
                /\ ms[i].key = k
                /\ \A j \in (i + 1)..Len(ms) : ms[j].key # k].value)

C18_ElementsAsMembers ==
    (/\ call.op = "parse_elements"
     /\ \A i \in 1..Len(input.elems) : call.members[i].ok)
        => call.ret = Ok(Object(<< <<KeyA,
                                     Array([i \in 1..Len(input.elems) |->
                                              MapGet(call.members[i].val.o, KeyA).val])>> >>))


(***************************************************************************)
(* Texts for the extended literals                                         *)
(***************************************************************************)

MaxObjects == 2

\* 2023, 0000, 1999, 202, 20233, abcd, 20a3
YearTexts ==
    { <<50, 48, 50, 51>>, <<48, 48, 48, 48>>, <<49, 57, 57, 57>>, <<50, 48, 50>>,
      <<50, 48, 50, 51, 51>>, <<97, 98, 99, 100>>, <<50, 48, 97, 51>> }

\* 00, 01, 02, 09, 10, 12, 13, 1, 1a, 99
MonthTexts ==
    { <<48, 48>>, <<48, 49>>, <<48, 50>>, <<48, 57>>, <<49, 48>>, <<49, 50>>, <<49, 51>>,
      <<49>>, <<49, 97>>, <<57, 57>> }

\* 00, 01, 09, 10, 29, 30, 31, 32, 1, 3x, 40
DayTexts ==
    { <<48, 48>>, <<48, 49>>, <<48, 57>>, <<49, 48>>, <<50, 57>>, <<51, 48>>, <<51, 49>>,
      <<51, 50>>, <<49>>, <<51, 120>>, <<52, 48>> }

\* 2023-11, 2023-11-, 2023, 2023/11/15, 2023-11-15x,  2023-11-15, 2023-11-15-01, 20231115, (empty)
OtherDateTexts ==
    { <<50, 48, 50, 51, 45, 49, 49>>, <<50, 48, 50, 51, 45, 49, 49, 45>>,
      <<50, 48, 50, 51>>, <<50, 48, 50, 51, 47, 49, 49, 47, 49, 53>>,
      <<50, 48, 50, 51, 45, 49, 49, 45, 49, 53, 120>>,
      <<32, 50, 48, 50, 51, 45, 49, 49, 45, 49, 53>>,
      <<50, 48, 50, 51, 45, 49, 49, 45, 49, 53, 45, 48, 49>>,
      <<50, 48, 50, 51, 49, 49, 49, 53>>, <<>> }

DateTexts ==
    {y \o <<Ch.minus>> \o m \o <<Ch.minus>> \o d : y \in YearTexts, m \in MonthTexts, d \in DayTexts}
    \cup OtherDateTexts

\* 1.0.0, 0.1.0, 10.20.30, 1.0, v1.0.0, 1.0.0.0, 01.0.0, 1..0, 1.0.x, 1.0., 1
CoreTexts ==
    { <<49, 46, 48, 46, 48>>, <<48, 46, 49, 46, 48>>, <<49, 48, 46, 50, 48, 46, 51, 48>>,
      <<49, 46, 48>>, <<118, 49, 46, 48, 46, 48>>, <<49, 46, 48, 46, 48, 46, 48>>,
      <<48, 49, 46, 48, 46, 48>>, <<49, 46, 46, 48>>, <<49, 46, 48, 46, 120>>,
      <<49, 46, 48, 46>>, <<49>> }

\* (empty), -alpha, -beta.1, -, -beta..1, -a@, -.a, -a., -1
PrereleaseTexts ==
    { <<>>, <<45, 97, 108, 112, 104, 97>>, <<45, 98, 101, 116, 97, 46, 49>>, <<45>>,
      <<45, 98, 101, 116, 97, 46, 46, 49>>, <<45, 97, 64>>, <<45, 46, 97>>, <<45, 97, 46>>,
      <<45, 49>> }

\* (empty), +build.123, +, +build@123, +a..b, +a+b, +a-b
BuildTexts ==
    { <<>>, <<43, 98, 117, 105, 108, 100, 46, 49, 50, 51>>, <<43>>,
      <<43, 98, 117, 105, 108, 100, 64, 49, 50, 51>>, <<43, 97, 46, 46, 98>>,
      <<43, 97, 43, 98>>, <<43, 97, 45, 98>> }

VersionTexts == {c \o p \o b : c \in CoreTexts, p \in PrereleaseTexts, b \in BuildTexts}

\* Well-formed objects: {}, {"a":1}, { "a" : "x" }, {"a":{"b":[1]}}
GoodObjectTexts ==
    { <<123, 125>>, <<123, 34, 97, 34, 58, 49, 125>>,
      <<123, 32, 34, 97, 34, 32, 58, 32, 34, 120, 34, 32, 125>>,
      <<123, 34, 97, 34, 58, 123, 34, 98, 34, 58, 91, 49, 93, 125, 125>> }

\* Values that are no objects: "x", 1, [], null
NonObjectTexts ==
    { <<34, 120, 34>>, <<49>>, <<91, 93>>, <<110, 117, 108, 108>> }

\* Malformed objects: {"a" 1}, {"a":1, {a:1}, {"a":}
BadObjectTexts ==
    { <<123, 34, 97, 34, 32, 49, 125>>, <<123, 34, 97, 34, 58, 49>>,
      <<123, 97, 58, 49, 125>>, <<123, 34, 97, 34, 58, 125>> }

\* A bracketed, comma-separated list of the element texts, with or without the
\* closing bracket.
ListText(elems, sp, closed) ==
    <<Ch.lbracket>> \o sp \o Joined(elems, <<Ch.comma>> \o sp) \o sp
    \o (IF closed THEN <<Ch.rbracket>> ELSE <<>>)

LiteralRequests ==
    {[op |-> "date", text |-> t] : t \in DateTexts}
    \cup {[op |-> "version", text |-> t] : t \in VersionTexts}
    \cup {[op |-> "key_value_array", text |-> ListText(es, sp, c), elems |-> es, closed |-> c]
            : es \in SeqsUpTo(GoodObjectTexts \cup NonObjectTexts \cup BadObjectTexts, MaxObjects),
              sp \in {<<>>, <<Ch.space>>}, c \in BOOLEAN}

InitLiteral ==
    /\ preserve_order \in BOOLEAN
    /\ json = NoValue
    /\ input \in LiteralRequests
    /\ call = Idle

\* JSONParser::parse(Rule::date, text)
MatchDateRule ==
    /\ input.op = "date" /\ call = Idle
    /\ call' = [op |-> "date", ret |-> MatchDate(input.text)]
    /\ UNCHANGED <<preserve_order, input, json>>

\* JSONParser::parse(Rule::version, text)
MatchVersionRule ==
    /\ input.op = "version" /\ call = Idle
    /\ call' = [op |-> "version", ret |-> MatchVersion(input.text)]
    /\ UNCHANGED <<preserve_order, input, json>>

\* JSONParser::parse(Rule::key_value_array, text)
MatchKeyValueArrayRule ==
    /\ input.op = "key_value_array" /\ call = Idle
    /\ call' = [op |-> "key_value_array", ret |-> MatchKeyValueArray(input.text)]
    /\ UNCHANGED <<preserve_order, input, json>>

NextLiteral == MatchDateRule \/ MatchVersionRule \/ MatchKeyValueArrayRule

SpecLiteral == InitLiteral /\ [][NextLiteral]_vars

\* C15: the key_value_array rule accepts a bracketed, comma-separated list exactly
\* when every element is a well-formed object and the closing bracket is there.
C15_KeyValueArray ==
    call.op = "key_value_array"
        => (call.ret.ok <=> /\ input.closed
                            /\ \A i \in 1..Len(input.elems) : input.elems[i] \in GoodObjectTexts)

\* The rule has refused a list whose second element is a string.
C15_Witness ==
    /\ call.op = "key_value_array"
    /\ input.closed
    /\ Len(input.elems) = 2
    /\ input.elems[1] \in GoodObjectTexts
    /\ input.elems[2] = <<Ch.quote, Ch.x, Ch.quote>>
    /\ ~call.ret.ok

\* YYYY-MM-DD: ten chars, digits around the two hyphens, month 1 to 12, day 1 to 31.
IsDateForm(t) ==
    /\ Len(t) = 10
    /\ t[5] = Ch.minus /\ t[8] = Ch.minus
    /\ \A i \in {1, 2, 3, 4, 6, 7, 9, 10} : IsDigit(t[i])
    /\ DigitsVal(SubSeq(t, 6, 7), 0) \in 1..12
    /\ DigitsVal(SubSeq(t, 9, 10), 0) \in 1..31

\* C16: the date rule accepts exactly the texts YYYY-MM-DD with a 4-digit year, a
\* month from 01 to 12 and a day from 01 to 31, whatever the calendar says.
C16_Date ==
    call.op = "date" => (call.ret.ok <=> IsDateForm(input.text))

\* The rule has accepted 2023-02-30.
C16_Witness ==
    /\ call.op = "date"
    /\ input.text = <<50, 48, 50, 51, 45, 48, 50, 45, 51, 48>>
    /\ call.ret.ok

\* The part of t before the first c, and the part after it.
PartBefore(t, c) == IF Contains(t, c) THEN SubSeq(t, 1, Find(t, c, 0)) ELSE t

PartAfter(t, c) == SubSeq(t, Find(t, c, 0) + 2, Len(t))

\* A non-negative integer, with no leading zero but for 0 itself.
IsIntegerText(p) ==
    /\ p # <<>>
    /\ \A i \in 1..Len(p) : IsDigit(p[i])
    /\ Len(p) > 1 => p[1] # Ch.zero

\* A dot-separated list of non-empty alphanumeric identifiers.
IsIdentifierList(p) ==
    \A i \in 1..Len(Split(p, Ch.dot, <<>>)) :
        /\ Split(p, Ch.dot, <<>>)[i] # <<>>
        /\ \A j \in 1..Len(Split(p, Ch.dot, <<>>)[i]) : IsAlphanumeric(Split(p, Ch.dot, <<>>)[i][j])

\* The three integers before the first hyphen or plus.
IsCore(p) ==
    /\ Len(Split(p, Ch.dot, <<>>)) = 3
    /\ \A i \in 1..3 : IsIntegerText(Split(p, Ch.dot, <<>>)[i])

\* major.minor.patch, then the prerelease after a hyphen if there is one, then the
\* build metadata after a plus if there is one.
IsVersionForm(t) ==
    /\ IsCore(PartBefore(PartBefore(t, Ch.plus), Ch.minus))
    /\ Contains(PartBefore(t, Ch.plus), Ch.minus)
          => IsIdentifierList(PartAfter(PartBefore(t, Ch.plus), Ch.minus))
    /\ Contains(t, Ch.plus) => IsIdentifierList(PartAfter(t, Ch.plus))

\* C17: the version rule accepts exactly major.minor.patch with an optional
\* -prerelease and an optional +buildmetadata, each a dot-separated list of non-empty
\* alphanumeric identifiers.
C17_Version ==
    call.op = "version" => (call.ret.ok <=> IsVersionForm(input.text))

\* The rule has refused 1.0.0-beta..1, whose prerelease has an empty identifier.
C17_Witness ==
    /\ call.op = "version"
    /\ input.text = <<49, 46, 48, 46, 48, 45, 98, 101, 116, 97, 46, 46, 49>>
    /\ ~call.ret.ok


(***************************************************************************)
(* Claims about display_structure and about search with lookup             *)
(***************************************************************************)

AllVariants == {"obj", "arr", "str", "num", "bool", "null"}

RECURSIVE Slots(_, _)
RECURSIVE SlotsIn(_, _, _, _)

\* The slots of the children from the i-th on, and below them; labels[i] is the label
\* of the i-th child.
SlotsIn(children, labels, i, level) ==
    IF i > Len(children) THEN <<>>
    ELSE <<[level |-> level, label |-> labels[i]]>>
         \o Slots(children[i], level + 1)
         \o SlotsIn(children, labels, i + 1, level)

\* The object members and array elements of v, depth-first in stored order, each with
\* the nesting level of its container and its key or bracketed index.
Slots(v, level) ==
    CASE v.t = "obj" -> SlotsIn([i \in 1..Len(v.o) |-> v.o[i][2]],
                                [i \in 1..Len(v.o) |-> v.o[i][1]], 1, level)
      [] v.t = "arr" -> SlotsIn(v.a, [i \in 1..Len(v.a) |->
                                        <<Ch.lbracket>> \o DecDigits(i - 1) \o <<Ch.rbracket>>],
                                1, level)
      [] OTHER -> <<>>

\* C19: display_structure prints, depth-first and in stored order, one line per object
\* key and per array index, indented by two spaces per nesting level of its container,
\* and none for a leaf: as many lines as there are members and elements in the tree.
C19_DisplayStructure ==
    call.op = "display_structure"
        => /\ Len(call.ret) = CountNodes(json, AllVariants) - 1
           /\ Len(call.ret) = Len(Slots(json, 0))
           /\ \A i \in 1..Len(call.ret) :
                  call.ret[i] = [n \in 1..(2 * Slots(json, 0)[i].level) |-> Ch.space]
                                \o Slots(json, 0)[i].label

\* display_structure has printed the six lines of {"a":{"b":[{"a":"x"},{"a":"y"}]}}.
C19_Witness ==
    /\ call.op = "display_structure"
    /\ json \in ExampleTrees
    /\ Len(call.ret) = 6
    /\ call.ret[4] = <<Ch.space, Ch.space, Ch.space, Ch.space, Ch.space, Ch.space, Ch.a>>

PlainKey(k) == k # <<>> /\ \A i \in 1..Len(k) : k[i] \notin {Ch.dot, Ch.lbracket, Ch.rbracket}

RECURSIVE PlainTree(_)
\* The keys are plain, and no array is an element of an array.
PlainTree(v) ==
    CASE v.t = "obj" -> \A i \in 1..Len(v.o) : PlainKey(v.o[i][1]) /\ PlainTree(v.o[i][2])
      [] v.t = "arr" -> \A i \in 1..Len(v.a) : ~is_array(v.a[i]) /\ PlainTree(v.a[i])
      [] OTHER -> TRUE

\* C20: in a tree whose root is an Object, whose keys are plain and where no array is
\* an element of an array, get_by_path on a path that search_by_value returned for v
\* gives Some(String v).
C20_SearchAgreesWithLookup ==
    (call.op = "get_by_found_path" /\ is_object(json) /\ PlainTree(json))
        => call.ret = Some(String(input.target_value))

\* get_by_path has answered the path a.b[0].a that search_by_value found.
C20_Witness ==
    /\ call.op = "get_by_found_path"
    /\ call.json_path = <<Ch.a, Ch.dot, Ch.b, Ch.lbracket, Ch.zero, Ch.rbracket, Ch.dot, Ch.a>>
    /\ call.ret = Some(StrX)

====
